---- MODULE Spec2Model ----
(***************************************************************************)
(* A model of DeviceFlowAuthenticator (vsts-device-flow-auth): the tenant  *)
(* probe, the device-code request, the poll loop of                        *)
(* WaitForPersonalAccessToken with its sleeps, back-off and cancellation,  *)
(* and the identity / location / token-creation chain.                     *)
(*                                                                         *)
(* JavaScript runs one callback at a time: an action of this model is the  *)
(* synchronous code that runs between two awaits.  Every request is        *)
(* answered by the environment, which picks the answer from a small set.   *)
(***************************************************************************)
EXTENDS Integers, Sequences, FiniteSets, TLC

----------------------------------------------------------------------------
(* JavaScript values.  A string-valued field that is undefined holds       *)
(* Undefined; a text made of atoms (the tenant header) that is undefined   *)
(* holds UndefinedText; a number that is NaN holds NaN.                    *)

Undefined == "<undefined>"
UndefinedText == <<"<undefined>">>
NaN == -1

\* !x for a string-valued x: undefined and the empty string are falsy.
Falsy(x) == x = Undefined \/ x = ""

\* x * y on JavaScript numbers.
Times(x, y) == IF x = NaN \/ y = NaN THEN NaN ELSE x * y

\* Number.parseInt of a JSON field: the numerals the provider sends, NaN for
\* anything else (a missing field, a text that is no numeral).
ParseInt(v) ==
    CASE v = "1" -> 1
      [] v = "5" -> 5
      [] v = "900" -> 900
      [] OTHER -> NaN

\* The outcome of a function call: a returned value or a thrown error.
Return(v) == [kind |-> "return", value |-> v]
Throw(e) == [kind |-> "throw", value |-> e]
NoResult == [kind |-> "none", value |-> Undefined]

----------------------------------------------------------------------------
(* Bounds of the model.                                                    *)

\* The longest tenant header, in atoms, of the tenant-resolution check.
MaxHeaderLen == 5
\* The longest account endpoint, in atoms, a constructor call is given.
MaxUriLen == 3
\* The most polls one WaitForPersonalAccessToken call is answered with
\* Pending or BackOff before the provider gives a final answer.
MaxPolls == 3

----------------------------------------------------------------------------
(* DeviceCodeStatus (the four status strings a poll may return in place of *)
(* an access token).                                                       *)

PENDING == "PENDING"
BACKOFF == "BACKOFF"
BADCODE == "BADCODE"
EXPIRED == "EXPIRED"
DeviceCodeStatus == {PENDING, BACKOFF, BADCODE, EXPIRED}

----------------------------------------------------------------------------
(* Tenant resolution (getTenantId).  A header is a text over these atoms:  *)
(* "Z" is the all-zero GUID 00000000-0000-0000-0000-000000000000, "A" and  *)
(* "B" are two other GUIDs, "," the separator and " " a blank.             *)

Sentinel == <<"Z">>
HeaderAtoms == {"Z", "A", "B", ",", " "}
HeadersUpTo(n) == UNION {[1..k -> HeaderAtoms] : k \in 0..n}

\* String.prototype.split(','): one piece more than there are commas.
RECURSIVE Split(_)
Split(s) ==
    IF \A i \in 1..Len(s) : s[i] # ","
    THEN <<s>>
    ELSE LET k == CHOOSE i \in 1..Len(s) :
                      s[i] = "," /\ \A j \in 1..(i - 1) : s[j] # ","
         IN <<SubSeq(s, 1, k - 1)>> \o Split(SubSeq(s, k + 1, Len(s)))

RECURSIVE TrimStart(_)
TrimStart(s) == IF s # <<>> /\ Head(s) = " " THEN TrimStart(Tail(s)) ELSE s

RECURSIVE TrimEnd(_)
TrimEnd(s) ==
    IF s # <<>> /\ s[Len(s)] = " " THEN TrimEnd(SubSeq(s, 1, Len(s) - 1)) ELSE s

\* String.prototype.trim()
Trim(s) == TrimStart(TrimEnd(s))

\* A mutant of SelectTenantId: the loop keeps the last id that is not the
\* sentinel (the break is missing).
RECURSIVE SelectTenantIdNoBreak(_)
SelectTenantIdNoBreak(ids) ==
    IF ids = <<>> THEN UndefinedText
    ELSE LET rest == SelectTenantIdNoBreak(Tail(ids))
         IN IF rest # UndefinedText THEN rest
            ELSE IF Head(ids) # Sentinel THEN Head(ids) ELSE UndefinedText

\* for (const id of tenantIds) { if (id !== sentinel) { tenantId = id; break; } }
\* The comparison is on the piece as split, before any trimming.
RECURSIVE SelectTenantId(_)
SelectTenantId(ids) ==
    IF ids = <<>> THEN UndefinedText
    ELSE IF Head(ids) # Sentinel THEN Head(ids)
    ELSE SelectTenantId(Tail(ids))

\* getTenantId from "if (resourceTenant)" on: resourceTenant is the header
\* value read from the response, UndefinedText when the header is absent.
ResolveTenant(resourceTenant) ==
    IF resourceTenant = UndefinedText \/ resourceTenant = <<>>
    THEN [kind |-> "throw", value |-> "TenantIdError", text |-> UndefinedText]
    ELSE LET tenantIds == Split(resourceTenant)
             tenantId == IF Len(tenantIds) > 1
                         THEN SelectTenantId(tenantIds)
                         ELSE tenantIds[1]
         IN IF tenantId = UndefinedText
            THEN \* undefined.trim()
                 [kind |-> "throw", value |-> "TypeError", text |-> UndefinedText]
            ELSE [kind |-> "return", value |-> Undefined, text |-> Trim(tenantId)]

\* What the HEAD request of getTenantId ends in: the promise resolves or
\* rejects, the value it carries has a response object or not, and that
\* object has the tenant header or not.
ProbeAnswers(headers) ==
    [path : {"resolve", "reject"}, response : {TRUE}, header : headers \cup {UndefinedText}]
    \cup [path : {"resolve", "reject"}, response : {FALSE}, header : {UndefinedText}]

\* getTenantId: the try/catch that reads the header, then ResolveTenant.
\* body.response[...] on a value without a response object throws a
\* TypeError; in the try block it is caught, and the catch block's own
\* error.response[...] throws again, out of getTenantId.
GetTenantId(answer) ==
    IF ~answer.response
    THEN [kind |-> "throw", value |-> "TypeError", text |-> UndefinedText]
    ELSE ResolveTenant(answer.header)

----------------------------------------------------------------------------
(* One poll (waitOnResponseAccessToken).  An answer of the token endpoint  *)
(* is an HTTP status (0: the request failed without any response) and a    *)
(* body: "json" (an object with the fields access_token and error, each    *)
(* possibly missing), "garbage" (not JSON) or "empty".                     *)

PollAnswer(status, body, access_token, error) ==
    [status |-> status, body |-> body, access_token |-> access_token, error |-> error]

\* request.post(...).then(...).catch(...): the value the promise resolves
\* to (an access token or one of the four status strings), or the error it
\* rejects with.  An error thrown in the then-handler has no statusCode and
\* is thrown again by the catch-handler.
WaitOnResponseAccessToken(a) ==
    IF a.status = 200
    THEN IF a.body # "json" THEN Throw("SyntaxError")
         ELSE IF ~Falsy(a.access_token) THEN Return(a.access_token)
         ELSE Throw("NoAccessTokenError")
    ELSE IF a.status = 400 /\ a.body # "empty"
    THEN IF a.body # "json" THEN Throw("SyntaxError")
         ELSE CASE a.error = "authorization_pending" -> Return(PENDING)
                [] a.error = "slow_down" -> Return(BACKOFF)
                [] a.error = "bad_verification_code" -> Return(BADCODE)
                [] a.error = "code_expired" -> Return(EXPIRED)
                [] OTHER -> Throw("StatusCodeError")
    ELSE Throw(IF a.status = 0 THEN "RequestError" ELSE "StatusCodeError")

\* The access tokens the provider may send: an ordinary one, and texts that
\* happen to equal a status string.
AccessTokens == {"tok", "PENDING"}

PollAnswers ==
    {PollAnswer(200, "json", t, Undefined) : t \in AccessTokens \cup {Undefined}}
    \cup {PollAnswer(200, "garbage", Undefined, Undefined)}
    \cup {PollAnswer(400, "json", Undefined, e) :
             e \in {"authorization_pending", "slow_down", "bad_verification_code",
                    "code_expired", "invalid_grant"}}
    \cup {PollAnswer(400, b, Undefined, Undefined) : b \in {"garbage", "empty"}}
    \cup {PollAnswer(500, "json", Undefined, "authorization_pending")}
    \cup {PollAnswer(0, "empty", Undefined, Undefined)}

----------------------------------------------------------------------------
(* The three authenticated requests that follow the access token.          *)

\* getAuthenticatedUserId: an answer is a status, a body and the value of
\* authenticatedUser.id (Undefined when authenticatedUser or its id is
\* missing).
GetAuthenticatedUserId(a) ==
    IF a.status # 200 THEN Throw(IF a.status = 0 THEN "RequestError" ELSE "StatusCodeError")
    ELSE IF a.body # "json" THEN Throw("SyntaxError")
    ELSE IF ~Falsy(a.id) THEN Return(a.id)
    ELSE Throw("NoAuthenticatedUserError")

IdentityAnswers ==
    {[status |-> 200, body |-> "json", id |-> i] : i \in {"uid", Undefined}}
    \cup {[status |-> 200, body |-> "garbage", id |-> Undefined],
          [status |-> 401, body |-> "json", id |-> Undefined]}

\* getIdentityServiceUrl: mappings says whether locationMappings is
\* "absent", "empty" (an array without elements) or "present"; location is
\* locationMappings[0].location.  An empty array passes "length >= 0" and
\* the read of [0].location throws a TypeError.
GetIdentityServiceUrl(a) ==
    IF a.status # 200 THEN Throw(IF a.status = 0 THEN "RequestError" ELSE "StatusCodeError")
    ELSE IF a.body # "json" THEN Throw("SyntaxError")
    ELSE IF a.mappings = "absent" THEN Throw("NoLocationError")
    ELSE IF a.mappings = "empty" THEN Throw("TypeError")
    ELSE IF ~Falsy(a.location) THEN Return(a.location)
    ELSE Throw("NoLocationError")

LocationAnswers ==
    {[status |-> 200, body |-> "json", mappings |-> "present", location |-> l] :
        l \in {"loc", Undefined}}
    \cup {[status |-> 200, body |-> "json", mappings |-> m, location |-> Undefined] :
             m \in {"absent", "empty"}}
    \cup {[status |-> 200, body |-> "garbage", mappings |-> "absent", location |-> Undefined],
          [status |-> 500, body |-> "json", mappings |-> "absent", location |-> Undefined]}

\* The token-creation POST of getScopedCompactAccessToken (json: true, so
\* the body arrives parsed; a body that is not JSON arrives as a string,
\* whose token property is undefined): returns body.token as it is.
SessionToken(a) ==
    IF a.status # 200 THEN Throw(IF a.status = 0 THEN "RequestError" ELSE "StatusCodeError")
    ELSE IF a.body = "json" THEN Return(a.token)
    ELSE Return(Undefined)

TokenAnswers ==
    {[status |-> 200, body |-> "json", token |-> t] : t \in {"pat", "", Undefined}}
    \cup {[status |-> 200, body |-> "garbage", token |-> Undefined],
          [status |-> 403, body |-> "json", token |-> Undefined]}

----------------------------------------------------------------------------
(* The constructor.  The account endpoint is a text over two atoms: "/" is *)
(* the separator, "h" any other character.  The options are strings,       *)
(* Undefined when a property is missing.  tokenOptions is an optional      *)
(* parameter: given says whether the caller passed it.                     *)

UriAtoms == {"h", "/"}
UrisUpTo(n) == UNION {[1..k -> UriAtoms] : k \in 0..n}

\* !x for a text.
FalsyText(x) == x = UndefinedText \/ x = <<>>

\* x || d
OrElse(x, d) == IF Falsy(x) THEN d ELSE x

DefaultAuthorityHost == "https://management.core.windows.net/"
DefaultGrantType == "device_code"
DefaultTokenDescription == "vsts-device-flow-auth Personal Access Token"
\* getDefaultUserAgent(), on some platform.
DefaultUserAgent == "vsts-device-flow-auth (os; Node)"

\* The options object of a caller that sets no userAgent.
AuthOptions(authorityHost_, clientId_, redirectUri_) ==
    [authorityHost |-> authorityHost_, clientId |-> clientId_, redirectUri |-> redirectUri_,
     userAgent |-> Undefined]
TokenOptions(grantType_, tokenScope_, tokenDescription_) ==
    [given |-> TRUE, grantType |-> grantType_, tokenScope |-> tokenScope_,
     tokenDescription |-> tokenDescription_]
\* The call new DeviceFlowAuthenticator(resourceUri, authOptions)
NoTokenOptions ==
    [given |-> FALSE, grantType |-> Undefined, tokenScope |-> Undefined,
     tokenDescription |-> Undefined]

\* A mutant of AddTrailingSeparator: the separator is always added.
AddTrailingSeparatorAlways(path, separator) == Append(path, separator)

\* addTrailingSeparator: path[path.length - 1] !== separator
AddTrailingSeparator(path, separator) ==
    IF path = <<>> \/ path[Len(path)] # separator THEN Append(path, separator) ELSE path

\* The fields as their initialisers leave them, before the constructor's body.
FieldInitialisers ==
    [result |-> NoResult, resourceUri |-> UndefinedText, authorityHost |-> "",
     clientId |-> "", redirectUri |-> "", grantType |-> "", tokenScope |-> "",
     tokenDescription |-> "", userAgent |-> ""]

\* A mutant of ClientIdMissing: the client id is not checked.
ClientIdMissingNever(authOptions) == FALSE

\* if (!authOptions.clientId)
ClientIdMissing(authOptions) == Falsy(authOptions.clientId)

\* tokenOptions.grantType: reading a property of undefined throws a TypeError.
ReadTokenOptions(tokenOptions) ==
    IF tokenOptions.given THEN Return(tokenOptions) ELSE Throw("TypeError")

\* The body of the constructor: the outcome and the fields as the body
\* leaves them, those assigned before a throw included.
Construct(resourceUri_, authOptions, tokenOptions) ==
    LET f0 == FieldInitialisers
        f1 == [f0 EXCEPT !.resourceUri = AddTrailingSeparator(resourceUri_, "/")]
        f2 == [f1 EXCEPT
                 !.authorityHost = OrElse(authOptions.authorityHost, DefaultAuthorityHost),
                 !.clientId = authOptions.clientId]
        f3 == [f2 EXCEPT
                 !.grantType = OrElse(tokenOptions.grantType, DefaultGrantType),
                 !.redirectUri = authOptions.redirectUri,
                 !.tokenScope = OrElse(tokenOptions.tokenScope, ""),
                 !.tokenDescription =
                     OrElse(tokenOptions.tokenDescription, DefaultTokenDescription),
                 !.userAgent = OrElse(authOptions.userAgent, DefaultUserAgent)]
    IN IF FalsyText(resourceUri_)
       THEN [f0 EXCEPT !.result = Throw("resourceUri must have a value")]
       ELSE IF ClientIdMissing(authOptions)
       THEN [f1 EXCEPT !.result = Throw("authOptions.clientId must have a value")]
       ELSE IF Falsy(authOptions.redirectUri)
       THEN [f1 EXCEPT !.result = Throw("authOptions.redirectUri must have a value")]
       ELSE IF ReadTokenOptions(tokenOptions).kind = "throw"
       THEN [f2 EXCEPT !.result = ReadTokenOptions(tokenOptions)]
       ELSE [f3 EXCEPT !.result = Return(Undefined)]

\* The arguments of a constructor call.
Args(resourceUri_, authOptions, tokenOptions) ==
    [resourceUri |-> resourceUri_, authOptions |-> authOptions, tokenOptions |-> tokenOptions]
NoArgs == Args(UndefinedText, AuthOptions(Undefined, Undefined, Undefined), NoTokenOptions)

\* The arguments the instance of Spec is constructed with (those of the
\* integration test: an endpoint without a trailing separator, client id,
\* redirect URI and a token description).
TestAppArgs ==
    Args(<<"h">>, AuthOptions(Undefined, "cid", "redir"),
         TokenOptions(Undefined, Undefined, "desc"))

----------------------------------------------------------------------------
(* The state: the fields of one DeviceFlowAuthenticator, the frame of a    *)
(* GetDeviceFlowDetails call, the frame of a WaitForPersonalAccessToken    *)
(* call, and a record of what the current or last call of each did.        *)

VARIABLES
    \* the fields the constructor sets, the outcome of the constructor and
    \* the arguments it was called with
    resourceUri, authorityHost, clientId, redirectUri,
    grantType, tokenScope, tokenDescription, userAgent, cres, c_args,
    \* fields of the instance
    tenantId, deviceCode, interval, expiresIn, cancelFlag, throwExceptionOnCancel,
    \* GetDeviceFlowDetails: where the call is suspended ("idle": no call is
    \* running) and the outcome of the last call, which holds the
    \* DeviceFlowDetails when the call returned
    gpc, gres,
    \* the URL of the request a GetDeviceFlowDetails call has in flight
    gurl,
    \* the header value the last answered tenant probe carried
    tenantFrom,
    \* WaitForPersonalAccessToken: where the call is suspended ("idle": no
    \* call is running), its locals, the credential the request in flight
    \* carries, and the outcome of the last call
    wpc, sleepInterval, accessToken, userId, wreq, wres,
    \* the URL of the request a WaitForPersonalAccessToken call has in flight
    wurl,
    \* the headers of the request a GetDeviceFlowDetails call and a
    \* WaitForPersonalAccessToken call have in flight
    gheaders, wheaders,
    \* the current or last WaitForPersonalAccessToken call: the interval it
    \* found, the requests it issued, the values its polls returned, the last
    \* answer to a poll and what it was classified as, the sleeps it took and
    \* whether Cancel was called while it was in a sleep or had a poll in flight
    w_start, w_sent, w_outcomes, w_answer, w_class, w_sleeps, w_cancelInLoop,
    \* how many polls the running call has sent since Cancel was called while
    \* it was in a sleep or had a poll in flight (0 when no call is running)
    w_pollsSinceCancel,
    \* the state of the orchestrator's state machine: "Created" until a
    \* GetDeviceFlowDetails call returns, then "AwaitingVerification", then
    \* "Completed", "Canceled" or "Failed" as a WaitForPersonalAccessToken
    \* call that polled ends
    flow

instanceVars == <<tenantId, deviceCode, interval, expiresIn, cancelFlag, throwExceptionOnCancel>>
gVars == <<gpc, gres, tenantFrom, gurl, gheaders>>
wVars == <<wpc, sleepInterval, accessToken, userId, wreq, wres, wurl, wheaders>>
wHistory == <<w_start, w_sent, w_outcomes, w_answer, w_class, w_sleeps, w_cancelInLoop,
              w_pollsSinceCancel, flow>>
configVars == <<resourceUri, authorityHost, clientId, redirectUri,
                grantType, tokenScope, tokenDescription, userAgent, cres, c_args>>
vars == <<configVars, instanceVars, gVars, wVars, wHistory>>

DefaultInterval == 5000
DefaultExpiresIn == 900000

NoAnswer == [status |-> 0, body |-> "none", access_token |-> Undefined, error |-> Undefined]
NoDetails == [message |-> Undefined, userCode |-> Undefined, verifyUrl |-> Undefined]

\* The outcome of a GetDeviceFlowDetails call.
Details(d) == [kind |-> "return", value |-> Undefined, details |-> d]
ThrowG(e) == [kind |-> "throw", value |-> e, details |-> NoDetails]
NoResultG == [kind |-> "none", value |-> Undefined, details |-> NoDetails]

\* A URL: the text it starts with and the fixed text that follows.
Url(base, path) == [base |-> base, path |-> path]
NoUrl == Url(UndefinedText, Undefined)

\* The URL of the tenant probe, of the identity lookup and of the location
\* lookup.
TenantUrl(uri) == Url(uri, "")
ConnectionDataUrl(uri) == Url(uri, "_apis/connectionData")
LocationServiceUrl(uri) ==
    Url(uri, "_apis/ServiceDefinitions/LocationService2/951917AC-A960-4999-8464-E3F0AA25B381?api-version=1.0")
\* The URL of the token-creation POST, from the location the lookup returned.
SessionTokensUrl(identityUrl) ==
    Url(<<identityUrl>>, "_apis/token/sessiontokens?api-version=1.0&tokentype=compact")
\* The URL of the device-code request (leaf "devicecode") and of a poll
\* (leaf "token"): the tenant's endpoint, or live.com for MSA-backed accounts.
LoginUrl(tenant, leaf) ==
    IF FalsyText(tenant) \/ tenant = Sentinel
    THEN Url(<<"https://login.microsoftonline.com/live.com/oauth2/">>, leaf)
    ELSE Url(<<"https://login.microsoft.com/">> \o tenant \o <<"/oauth2/">>, leaf)

\* The headers of a request: a set of pairs of a name and a value.
NoHeaders == {}

\* getUserAgentHeaders()
GetUserAgentHeaders(ua) == {<<"User-Agent", <<ua>>>>}

\* getAuthorizationHeaders(accessToken): the Authorization value is "Basic "
\* and the base64 text of "PAT:" + accessToken.
GetAuthorizationHeaders(ua, token) ==
    {<<"Authorization", <<"Basic", "PAT:", token>>>>,
     <<"X-TFS-FedAuthRedirect", <<"Suppress">>>>,
     <<"User-Agent", <<ua>>>>}

\* headers: this.getUserAgentHeaders -- the method itself, not the object
\* it returns.  A function has no own property named after a header, so
\* as a map of headers it is empty.
UncalledGetUserAgentHeaders == {}

\* The constructor has run with args: the fields it sets and its outcome.
Constructed(args) ==
    LET c == Construct(args.resourceUri, args.authOptions, args.tokenOptions)
    IN /\ resourceUri = c.resourceUri /\ authorityHost = c.authorityHost
       /\ clientId = c.clientId /\ redirectUri = c.redirectUri
       /\ grantType = c.grantType /\ tokenScope = c.tokenScope
       /\ tokenDescription = c.tokenDescription
       /\ userAgent = c.userAgent
       /\ cres = c.result
       /\ c_args = args

\* The fields the constructor does not set, as their initialisers leave
\* them, and no call running.
Fresh ==
    /\ tenantId = UndefinedText
    /\ deviceCode = Undefined
    /\ interval = DefaultInterval
    /\ expiresIn = DefaultExpiresIn
    /\ cancelFlag = FALSE
    /\ throwExceptionOnCancel = "false"
    /\ gpc = "idle" /\ gres = NoResultG /\ gurl = NoUrl /\ gheaders = NoHeaders
    /\ tenantFrom = UndefinedText
    /\ wurl = NoUrl /\ wheaders = NoHeaders
    /\ wpc = "idle" /\ sleepInterval = 0 /\ accessToken = Undefined
    /\ userId = Undefined /\ wreq = Undefined /\ wres = NoResult
    /\ w_start = 0
    /\ w_sent = <<>> /\ w_outcomes = <<>> /\ w_sleeps = <<>>
    /\ w_answer = NoAnswer /\ w_class = NoResult
    /\ w_cancelInLoop = FALSE /\ w_pollsSinceCancel = 0 /\ flow = "Created"

\* The state after a construction that succeeded.
Init == Fresh /\ Constructed(TestAppArgs)

\* The state before the constructor's body runs.
ConstructInit ==
    /\ Fresh
    /\ resourceUri = FieldInitialisers.resourceUri
    /\ authorityHost = FieldInitialisers.authorityHost
    /\ clientId = FieldInitialisers.clientId
    /\ redirectUri = FieldInitialisers.redirectUri
    /\ grantType = FieldInitialisers.grantType
    /\ tokenScope = FieldInitialisers.tokenScope
    /\ tokenDescription = FieldInitialisers.tokenDescription
    /\ userAgent = FieldInitialisers.userAgent
    /\ cres = NoResult
    /\ c_args = NoArgs

----------------------------------------------------------------------------
(* The constructor                                                         *)

\* new DeviceFlowAuthenticator(resourceUri, authOptions, tokenOptions)
Constructor(args) ==
    /\ cres.kind = "none"
    /\ LET c == Construct(args.resourceUri, args.authOptions, args.tokenOptions)
       IN /\ resourceUri' = c.resourceUri /\ authorityHost' = c.authorityHost
          /\ clientId' = c.clientId /\ redirectUri' = c.redirectUri
          /\ grantType' = c.grantType /\ tokenScope' = c.tokenScope
          /\ tokenDescription' = c.tokenDescription
          /\ userAgent' = c.userAgent
          /\ cres' = c.result
    /\ c_args' = args
    /\ UNCHANGED <<instanceVars, gVars, wVars, wHistory>>

----------------------------------------------------------------------------
(* GetDeviceFlowDetails                                                    *)

\* The call, up to the HEAD request of getTenantId.
GetDeviceFlowDetails ==
    /\ gpc = "idle"
    /\ gpc' = "probe"
    /\ gurl' = TenantUrl(resourceUri)
    /\ gheaders' = UncalledGetUserAgentHeaders
    /\ gres' = NoResultG
    /\ UNCHANGED <<instanceVars, tenantFrom, wVars, wHistory>>
    /\ UNCHANGED configVars

\* A mutant of StoreTenantId: a tenant id that is stored is kept.
StoreTenantIdOnce(old, new) == IF old = UndefinedText THEN new ELSE old

\* this.tenantId = await this.getTenantId()
StoreTenantId(old, new) == new

\* The HEAD request is answered: getTenantId finishes, its result is stored
\* in this.tenantId and the device-code POST is sent; or getTenantId throws
\* and so does the call.
TenantProbeAnswered(a) ==
    /\ gpc = "probe"
    /\ LET r == GetTenantId(a)
       IN IF r.kind = "throw"
          THEN /\ gpc' = "idle"
               /\ gurl' = NoUrl
               /\ gheaders' = NoHeaders
               /\ gres' = ThrowG(r.value)
               /\ UNCHANGED tenantId
          ELSE /\ gpc' = "devicecode"
               /\ tenantId' = StoreTenantId(tenantId, r.text)
               /\ gurl' = LoginUrl(tenantId', "devicecode")
               /\ gheaders' = GetUserAgentHeaders(userAgent)
               /\ UNCHANGED gres
    /\ tenantFrom' = a.header
    /\ UNCHANGED <<deviceCode, interval, expiresIn, cancelFlag, throwExceptionOnCancel,
                   wVars, wHistory>>
    /\ UNCHANGED configVars

\* An answer of the device-code endpoint: a status, a body and the fields of
\* the JSON object.
DeviceCodeAnswer(status, body, device_code, itv, message) ==
    [status |-> status, body |-> body, device_code |-> device_code, interval |-> itv,
     expires_in |-> IF itv = Undefined THEN Undefined ELSE "900",
     message |-> message,
     user_code |-> IF message = Undefined THEN Undefined ELSE "UC",
     verification_url |-> IF message = Undefined THEN Undefined ELSE "url"]

DeviceCodeAnswers ==
    {DeviceCodeAnswer(200, "json", "dc1", "5", "msg"),
     DeviceCodeAnswer(200, "json", "dc2", "1", "msg"),
     DeviceCodeAnswer(200, "json", Undefined, "5", "msg"),
     DeviceCodeAnswer(200, "json", "dc1", Undefined, Undefined),
     DeviceCodeAnswer(200, "garbage", Undefined, Undefined, Undefined),
     DeviceCodeAnswer(400, "json", Undefined, Undefined, Undefined)}

\* A mutant of StoreDeviceCode: a device code that is stored is kept.
StoreDeviceCodeOnce(old, new) == IF Falsy(old) THEN new ELSE old

\* this.deviceCode = json.device_code
StoreDeviceCode(old, new) == new

\* The device-code POST is answered: the then-handler parses the body, saves
\* device code, interval and expiry and returns the DeviceFlowDetails.
DeviceCodeAnswered(a) ==
    /\ gpc = "devicecode"
    /\ gpc' = "idle"
    /\ gurl' = NoUrl
    /\ gheaders' = NoHeaders
    /\ IF a.status # 200
       THEN /\ gres' = ThrowG(IF a.status = 0 THEN "RequestError" ELSE "StatusCodeError")
            /\ UNCHANGED <<deviceCode, interval, expiresIn, flow>>
       ELSE IF a.body # "json"
       THEN /\ gres' = ThrowG("SyntaxError")
            /\ UNCHANGED <<deviceCode, interval, expiresIn, flow>>
       ELSE /\ deviceCode' = StoreDeviceCode(deviceCode, a.device_code)
            /\ interval' = Times(ParseInt(a.interval), 1000)
            /\ expiresIn' = Times(ParseInt(a.expires_in), 1000)
            /\ gres' = Details([message |-> a.message, userCode |-> a.user_code,
                                 verifyUrl |-> a.verification_url])
            /\ flow' = "AwaitingVerification"
    /\ UNCHANGED <<tenantId, cancelFlag, throwExceptionOnCancel, tenantFrom, wVars,
                   w_start, w_sent, w_outcomes, w_answer, w_class, w_sleeps, w_cancelInLoop,
                   w_pollsSinceCancel>>
    /\ UNCHANGED configVars

----------------------------------------------------------------------------
(* Cancel                                                                  *)

\* A mutant of Cancel: it also discards the stored device code.
CancelDiscardingCode(t) ==
    /\ cancelFlag' = TRUE
    /\ throwExceptionOnCancel' = t
    /\ deviceCode' = Undefined
    /\ w_cancelInLoop' = (w_cancelInLoop \/ wpc \in {"poll", "sleep"})
    /\ UNCHANGED <<tenantId, interval, expiresIn, gVars, wVars,
                   w_start, w_sent, w_outcomes, w_answer, w_class, w_sleeps,
                   w_pollsSinceCancel, flow>>
    /\ UNCHANGED configVars

\* Cancel(throwExceptionOnCancel?): the argument is true, false or omitted.
Cancel(t) ==
    /\ cancelFlag' = TRUE
    /\ throwExceptionOnCancel' = t
    /\ w_cancelInLoop' = (w_cancelInLoop \/ wpc \in {"poll", "sleep"})
    /\ UNCHANGED <<tenantId, deviceCode, interval, expiresIn, gVars, wVars,
                   w_start, w_sent, w_outcomes, w_answer, w_class, w_sleeps,
                   w_pollsSinceCancel, flow>>
    /\ UNCHANGED configVars

----------------------------------------------------------------------------
(* WaitForPersonalAccessToken                                              *)

\* A mutant of DeviceCodeMissing: the check is gone.
DeviceCodeMissingNever(dc) == FALSE

\* A mutant of DeviceCodeMissing: the check is inverted.
DeviceCodeMissingInverted(dc) == ~Falsy(dc)

\* if (!this.deviceCode)
DeviceCodeMissing(dc) == Falsy(dc)

\* The call ends: the promise settles with result and the frame, with its
\* locals, is gone.
Finish(result, end) ==
    /\ wpc' = "idle"
    /\ wres' = result
    /\ flow' = IF end = "Rejected" THEN flow ELSE end
    /\ wreq' = Undefined
    /\ wurl' = NoUrl
    /\ wheaders' = NoHeaders
    /\ sleepInterval' = 0
    /\ accessToken' = Undefined
    /\ userId' = Undefined

\* The call, up to the first poll request.
WaitForPersonalAccessToken ==
    /\ wpc = "idle"
    /\ w_start' = interval
    /\ w_outcomes' = <<>> /\ w_sleeps' = <<>> /\ w_cancelInLoop' = FALSE
    /\ w_pollsSinceCancel' = 0
    /\ w_answer' = NoAnswer /\ w_class' = NoResult
    /\ IF DeviceCodeMissing(deviceCode)
       THEN /\ Finish(Throw("PreconditionError"), "Rejected")
            /\ w_sent' = <<>>
       ELSE /\ sleepInterval' = interval
            /\ UNCHANGED <<accessToken, userId>>
            /\ wpc' = "poll"
            /\ wreq' = deviceCode
            /\ wurl' = LoginUrl(tenantId, "token")
            /\ wheaders' = GetUserAgentHeaders(userAgent)
            /\ wres' = NoResult
            /\ w_sent' = <<"poll">>
            /\ UNCHANGED flow
    /\ UNCHANGED <<instanceVars, gVars>>
    /\ UNCHANGED configVars

\* A mutant of LoopCondition: the loop does not look at the cancel flag.
LoopConditionNoCancel(cf, token) ==
    token # EXPIRED /\ (token = PENDING \/ token = BACKOFF)

\* A mutant of LoopCondition: after BACKOFF the loop does not look at the
\* cancel flag.
LoopConditionBackOffUncancelled(cf, token) ==
    (~cf \/ token = BACKOFF) /\ token # EXPIRED /\ (token = PENDING \/ token = BACKOFF)

\* The condition of the while loop.
LoopCondition(cf, token) ==
    ~cf /\ token # EXPIRED /\ (token = PENDING \/ token = BACKOFF)

\* A mutant of NextSleepInterval: BACKOFF adds the default interval instead
\* of doubling.
NextSleepIntervalAdd(token, si) ==
    IF token = BACKOFF THEN (IF si = NaN THEN NaN ELSE si + DefaultInterval) ELSE si

\* A mutant of NextSleepInterval: the interval is doubled before every sleep.
NextSleepIntervalAlways(token, si) == Times(si, 2)

\* The interval slept in the loop body: as it is after PENDING, doubled
\* after BACKOFF.
NextSleepInterval(token, si) == IF token = BACKOFF THEN Times(si, 2) ELSE si

\* A mutant of AfterLoop: the cancel check is inverted.
AfterLoopInverted(cf, throwOnCancel, token) ==
    IF token = EXPIRED THEN Throw("CodeExpiredError")
    ELSE IF token = BADCODE THEN Throw("InvalidCodeError")
    ELSE IF ~cf
    THEN IF throwOnCancel = "true" THEN Throw("CanceledError") ELSE Return(Undefined)
    ELSE NoResult

\* A mutant of AfterLoop: the BADCODE check is missing.
AfterLoopNoBadCode(cf, throwOnCancel, token) ==
    IF token = EXPIRED THEN Throw("CodeExpiredError")
    ELSE IF cf
    THEN IF throwOnCancel = "true" THEN Throw("CanceledError") ELSE Return(Undefined)
    ELSE NoResult

\* A mutant of AfterLoop: the EXPIRED check is missing.
AfterLoopNoExpired(cf, throwOnCancel, token) ==
    IF token = BADCODE THEN Throw("InvalidCodeError")
    ELSE IF cf
    THEN IF throwOnCancel = "true" THEN Throw("CanceledError") ELSE Return(Undefined)
    ELSE NoResult

\* A mutant of AfterLoop: a cancellation that is not to throw is ignored.
AfterLoopSilentCancelIgnored(cf, throwOnCancel, token) ==
    IF token = EXPIRED THEN Throw("CodeExpiredError")
    ELSE IF token = BADCODE THEN Throw("InvalidCodeError")
    ELSE IF cf /\ throwOnCancel = "true" THEN Throw("CanceledError")
    ELSE NoResult

\* The three checks after the loop: the result the call ends with, or
\* NoResult when it goes on to the identity lookup.
AfterLoop(cf, throwOnCancel, token) ==
    IF token = EXPIRED THEN Throw("CodeExpiredError")
    ELSE IF token = BADCODE THEN Throw("InvalidCodeError")
    ELSE IF cf
    THEN IF throwOnCancel = "true" THEN Throw("CanceledError") ELSE Return(Undefined)
    ELSE NoResult

\* A poll is answered: waitOnResponseAccessToken settles, and the call runs
\* on to its next await (a sleep or the identity lookup) or to its end.
PollAnswered(a) ==
    /\ wpc = "poll"
    /\ LET r == WaitOnResponseAccessToken(a)
       IN /\ w_answer' = a
          /\ w_class' = r
          /\ IF r.kind = "throw"
             THEN /\ Finish(r, "Failed")
                  /\ UNCHANGED <<w_outcomes, w_sleeps, w_sent>>
             ELSE /\ w_outcomes' = Append(w_outcomes, r.value)
                  /\ IF LoopCondition(cancelFlag, r.value)
                     THEN /\ Len(w_outcomes) + 1 < MaxPolls
                          /\ accessToken' = r.value
                          /\ sleepInterval' = NextSleepInterval(r.value, sleepInterval)
                          /\ w_sleeps' = Append(w_sleeps, sleepInterval')
                          /\ wpc' = "sleep"
                          /\ wreq' = Undefined
                          /\ wurl' = NoUrl
                          /\ wheaders' = NoHeaders
                          /\ UNCHANGED <<wres, userId, w_sent, flow>>
                     ELSE LET end == AfterLoop(cancelFlag, throwExceptionOnCancel, r.value)
                          IN IF end.kind # "none"
                             THEN /\ Finish(end, IF cancelFlag /\ r.value \notin {EXPIRED, BADCODE}
                                                  THEN "Canceled" ELSE "Failed")
                                  /\ UNCHANGED <<w_sleeps, w_sent>>
                             ELSE /\ accessToken' = r.value
                                  /\ wpc' = "identity"
                                  /\ wreq' = r.value
                                  /\ wurl' = ConnectionDataUrl(resourceUri)
                                  /\ wheaders' = GetAuthorizationHeaders(userAgent, accessToken')
                                  /\ w_sent' = Append(w_sent, "identity")
                                  /\ UNCHANGED <<wres, userId, sleepInterval, w_sleeps, flow>>
    /\ UNCHANGED <<instanceVars, gVars, w_start, w_cancelInLoop>>
    /\ w_pollsSinceCancel' = IF wpc' = "idle" THEN 0 ELSE w_pollsSinceCancel
    /\ UNCHANGED configVars

\* The sleep ends: the next poll is sent, with this.deviceCode as it is now.
SleepDone ==
    /\ wpc = "sleep"
    /\ wpc' = "poll"
    /\ wreq' = deviceCode
    /\ wurl' = LoginUrl(tenantId, "token")
    /\ wheaders' = GetUserAgentHeaders(userAgent)
    /\ w_sent' = Append(w_sent, "poll")
    /\ UNCHANGED <<instanceVars, gVars, sleepInterval, accessToken, userId, wres,
                   w_start, w_outcomes, w_answer, w_class, w_sleeps, w_cancelInLoop, flow>>
    /\ w_pollsSinceCancel' = IF w_cancelInLoop THEN w_pollsSinceCancel + 1 ELSE 0
    /\ UNCHANGED configVars

\* The connectionData GET is answered: the user id is kept and the location
\* lookup of getScopedCompactAccessToken is sent.
IdentityAnswered(a) ==
    /\ wpc = "identity"
    /\ LET r == GetAuthenticatedUserId(a)
       IN IF r.kind = "throw"
          THEN /\ Finish(r, "Failed")
               /\ UNCHANGED w_sent
          ELSE /\ userId' = r.value
               /\ wpc' = "location"
               /\ wreq' = accessToken
               /\ wurl' = LocationServiceUrl(resourceUri)
               /\ wheaders' = GetAuthorizationHeaders(userAgent, accessToken)
               /\ w_sent' = Append(w_sent, "location")
               /\ UNCHANGED <<wres, sleepInterval, accessToken, flow>>
    /\ UNCHANGED <<instanceVars, gVars,
                   w_start, w_outcomes, w_answer, w_class, w_sleeps, w_cancelInLoop>>
    /\ w_pollsSinceCancel' = IF wpc' = "idle" THEN 0 ELSE w_pollsSinceCancel
    /\ UNCHANGED configVars

\* The location lookup is answered: the token-creation POST is sent.
LocationAnswered(a) ==
    /\ wpc = "location"
    /\ LET r == GetIdentityServiceUrl(a)
       IN IF r.kind = "throw"
          THEN /\ Finish(r, "Failed")
               /\ UNCHANGED w_sent
          ELSE /\ wpc' = "token"
               /\ wreq' = accessToken
               /\ wurl' = SessionTokensUrl(r.value)
               /\ wheaders' = GetAuthorizationHeaders(userAgent, accessToken)
               /\ w_sent' = Append(w_sent, "token")
               /\ UNCHANGED <<wres, sleepInterval, accessToken, userId, flow>>
    /\ UNCHANGED <<instanceVars, gVars,
                   w_start, w_outcomes, w_answer, w_class, w_sleeps, w_cancelInLoop>>
    /\ w_pollsSinceCancel' = IF wpc' = "idle" THEN 0 ELSE w_pollsSinceCancel
    /\ UNCHANGED configVars

\* The token-creation POST is answered: the call returns what
\* getScopedCompactAccessToken returns.
TokenAnswered(a) ==
    /\ wpc = "token"
    /\ LET r == SessionToken(a)
       IN Finish(r, IF r.kind = "throw" THEN "Failed" ELSE "Completed")
    /\ UNCHANGED <<instanceVars, gVars,
                   w_start, w_sent, w_outcomes, w_answer, w_class, w_sleeps, w_cancelInLoop>>
    /\ w_pollsSinceCancel' = IF wpc' = "idle" THEN 0 ELSE w_pollsSinceCancel
    /\ UNCHANGED configVars

----------------------------------------------------------------------------
(* The specifications.                                                     *)

\* The tenant headers of Spec: a consumer account, an enterprise account
\* that lists the sentinel first.
ProbeHeaders == {<<"Z">>, <<"Z", ",", "A">>}

Next ==
    \/ GetDeviceFlowDetails
    \/ \E a \in ProbeAnswers(ProbeHeaders) : TenantProbeAnswered(a)
    \/ \E a \in DeviceCodeAnswers : DeviceCodeAnswered(a)
    \/ \E t \in {"true", "false", Undefined} : Cancel(t)
    \/ WaitForPersonalAccessToken
    \/ \E a \in PollAnswers : PollAnswered(a)
    \/ SleepDone
    \/ \E a \in IdentityAnswers : IdentityAnswered(a)
    \/ \E a \in LocationAnswers : LocationAnswered(a)
    \/ \E a \in TokenAnswers : TokenAnswered(a)

Spec == Init /\ [][Next]_vars

\* Tenant resolution alone: one GetDeviceFlowDetails call on a new instance,
\* whose tenant probe is answered with any header of up to MaxHeaderLen
\* atoms.
TenantNext ==
    \/ flow = "Created" /\ gres.kind = "none" /\ GetDeviceFlowDetails
    \/ \E a \in ProbeAnswers(HeadersUpTo(MaxHeaderLen)) : TenantProbeAnswered(a)
    \/ DeviceCodeAnswered(DeviceCodeAnswer(200, "json", "dc1", "5", "msg"))

TenantSpec == Init /\ [][TenantNext]_vars

\* The arguments of the constructor calls of ConstructSpec.
ConstructorArgs ==
    {Args(u, AuthOptions(h, c, r), t) :
        u \in UrisUpTo(MaxUriLen) \cup {UndefinedText},
        h \in {Undefined, "host"},
        c \in {Undefined, "", "cid"},
        r \in {Undefined, "", "redir"},
        t \in {NoTokenOptions}
              \cup {TokenOptions(g, sc, d) : g \in {Undefined, "gt"},
                                            sc \in {Undefined, "scope"},
                                            d \in {Undefined, "desc"}}}

\* Construction with any arguments; on the instance a successful
\* construction yields, one GetDeviceFlowDetails call and
\* WaitForPersonalAccessToken calls whose requests all succeed.  A
\* constructor that throws yields no instance to call anything on.
ConstructNext ==
    \/ \E args \in ConstructorArgs : Constructor(args)
    \/ /\ cres.kind = "return"
       /\ \/ flow = "Created" /\ gres.kind = "none" /\ GetDeviceFlowDetails
          \/ TenantProbeAnswered([path |-> "resolve", response |-> TRUE,
                                   header |-> <<"Z", ",", "A">>])
          \/ DeviceCodeAnswered(DeviceCodeAnswer(200, "json", "dc1", "5", "msg"))
          \/ wres.kind # "return" /\ WaitForPersonalAccessToken
          \/ PollAnswered(PollAnswer(200, "json", "tok", Undefined))
          \/ IdentityAnswered([status |-> 200, body |-> "json", id |-> "uid"])
          \/ LocationAnswered([status |-> 200, body |-> "json", mappings |-> "present",
                                location |-> "loc"])
          \/ TokenAnswered([status |-> 200, body |-> "json", token |-> "pat"])

ConstructSpec == ConstructInit /\ [][ConstructNext]_vars

\* A device-code answer whose expiry window (1 s) is shorter than its poll
\* interval (5 s).
ShortLivedCode ==
    [DeviceCodeAnswer(200, "json", "dc1", "5", "msg") EXCEPT !.expires_in = "1"]

\* One GetDeviceFlowDetails call, then WaitForPersonalAccessToken calls and
\* Cancel in any interleaving, with every answer to the requests of
\* WaitForPersonalAccessToken.
LiveNext ==
    \/ flow = "Created" /\ gres.kind = "none" /\ GetDeviceFlowDetails
    \/ TenantProbeAnswered([path |-> "resolve", response |-> TRUE, header |-> <<"A">>])
    \/ DeviceCodeAnswered(ShortLivedCode)
    \/ \E t \in {"true", "false"} : Cancel(t)
    \/ WaitForPersonalAccessToken
    \/ \E a \in PollAnswers : PollAnswered(a)
    \/ SleepDone
    \/ \E a \in IdentityAnswers : IdentityAnswered(a)
    \/ \E a \in LocationAnswers : LocationAnswered(a)
    \/ \E a \in TokenAnswers : TokenAnswered(a)

\* Fair scheduling: a timer that was set fires, and a request that was
\* sent is answered.
LiveSpec ==
    /\ Init /\ [][LiveNext]_vars
    /\ WF_vars(SleepDone)
    /\ WF_vars(\E a \in PollAnswers : PollAnswered(a))
    /\ WF_vars(\E a \in IdentityAnswers : IdentityAnswered(a))
    /\ WF_vars(\E a \in LocationAnswers : LocationAnswered(a))
    /\ WF_vars(\E a \in TokenAnswers : TokenAnswered(a))

\* The device code the provider issues first.
FirstCode == DeviceCodeAnswer(200, "json", "dc1", "5", "msg")

\* The answers of the device-code endpoint in ReissueSpec: the first code
\* to an instance that stores none, and after it every other answer.
ReissueAnswers == IF Falsy(deviceCode) THEN {FirstCode} ELSE DeviceCodeAnswers \ {FirstCode}

\* GetDeviceFlowDetails called again and again on one instance whose
\* provider never issues its first device code twice, with
\* WaitForPersonalAccessToken calls in any interleaving and every answer to
\* their requests.
ReissueNext ==
    \/ GetDeviceFlowDetails
    \/ \E a \in ProbeAnswers(ProbeHeaders) : TenantProbeAnswered(a)
    \/ \E a \in ReissueAnswers : DeviceCodeAnswered(a)
    \/ WaitForPersonalAccessToken
    \/ \E a \in PollAnswers : PollAnswered(a)
    \/ SleepDone
    \/ \E a \in IdentityAnswers : IdentityAnswered(a)
    \/ \E a \in LocationAnswers : LocationAnswered(a)
    \/ \E a \in TokenAnswers : TokenAnswered(a)

ReissueSpec == Init /\ [][ReissueNext]_vars

----------------------------------------------------------------------------
(* Words of the properties below.                                          *)

\* This step is an answer to a poll.
PollStep == \E a \in PollAnswers : PollAnswered(a)

\* The value a poll returned is an access token (none of the status strings).
IsAccessToken(r) == r.kind = "return" /\ r.value \notin DeviceCodeStatus

\* How often request kind k occurs in the list of requests sent.
Sent(k) == Cardinality({i \in 1..Len(w_sent) : w_sent[i] = k})

\* How many of the first n polls returned BACKOFF.
BackOffs(n) == Cardinality({i \in 1..n : w_outcomes[i] = BACKOFF})

----------------------------------------------------------------------------
(* C1: a WaitForPersonalAccessToken call on an instance that holds no      *)
(* device code ends at once with the precondition error, with no request   *)
(* of any kind sent and none in flight.                                    *)
C1_NoDeviceCodeNoRequest ==
    [][(WaitForPersonalAccessToken /\ (deviceCode = Undefined \/ deviceCode = ""))
        => /\ wpc' = "idle"
           /\ wres' = Throw("PreconditionError")
           /\ w_sent' = <<>>
           /\ wreq' = Undefined]_vars

\* A call was refused on an instance without a device code.
C1_Witness ==
    /\ wpc = "idle" /\ wres = Throw("PreconditionError")
    /\ deviceCode = Undefined /\ w_sent = <<>>

(* C2 as amended: when a poll returns an access token and Cancel has not   *)
(* been called by then, the call sends the identity lookup with that       *)
(* token; after an identity answer with a user id it sends the location    *)
(* lookup, and after a location answer with a location the token-creation  *)
(* request, each with the same token; and it returns the token field of    *)
(* the token-creation answer.                                              *)
C2_AccessTokenProceeds ==
    [][/\ (PollStep /\ IsAccessToken(w_class') /\ ~cancelFlag)
            => /\ wpc' = "identity" /\ wreq' = w_class'.value
               /\ w_sent' = Append(w_sent, "identity")
       /\ \A a \in IdentityAnswers :
            (IdentityAnswered(a) /\ a.status = 200 /\ a.body = "json" /\ ~Falsy(a.id))
            => /\ wpc' = "location" /\ wreq' = wreq
               /\ w_sent' = Append(w_sent, "location")
       /\ \A a \in LocationAnswers :
            (LocationAnswered(a) /\ a.status = 200 /\ a.body = "json"
                /\ a.mappings = "present" /\ ~Falsy(a.location))
            => /\ wpc' = "token" /\ wreq' = wreq
               /\ w_sent' = Append(w_sent, "token")
       /\ \A a \in TokenAnswers :
            (TokenAnswered(a) /\ a.status = 200 /\ a.body = "json")
            => /\ wpc' = "idle" /\ wres' = Return(a.token)]_vars

\* A call that was never cancelled returned the minted token.
C2_Witness ==
    /\ wpc = "idle" /\ ~cancelFlag /\ wres = Return("pat")
    /\ IsAccessToken(w_class)
    /\ Sent("identity") = 1 /\ Sent("location") = 1 /\ Sent("token") = 1

\* C2 as claimed: whenever a poll returns an access token, the call goes on
\* to the identity lookup with that token.
C2_Original ==
    [][(PollStep /\ IsAccessToken(w_class'))
        => (wpc' = "identity" /\ wreq' = w_class'.value)]_vars

(* C3 as amended: when Cancel was called while the call was in a sleep or  *)
(* had a poll in flight, the call ends with the answer to the poll in      *)
(* flight or to the next poll: if that poll fails, with its error; if it   *)
(* returns EXPIRED or BADCODE, with the code-expired or invalid-code       *)
(* error; otherwise (PENDING, BACKOFF or an access token) with the         *)
(* canceled error when the last Cancel asked to throw, and with an absent  *)
(* result when it did not.                                                 *)
C3_CancelInLoop ==
    [][(PollStep /\ w_cancelInLoop)
        => /\ wpc' = "idle"
           /\ w_sent' = w_sent
           /\ wres' = IF w_class'.kind = "throw" THEN w_class'
                      ELSE IF w_class'.value = EXPIRED THEN Throw("CodeExpiredError")
                      ELSE IF w_class'.value = BADCODE THEN Throw("InvalidCodeError")
                      ELSE IF throwExceptionOnCancel = "true" THEN Throw("CanceledError")
                      ELSE Return(Undefined)]_vars

\* A call that was cancelled during a sleep ended with the canceled error.
C3_Witness ==
    /\ wpc = "idle" /\ w_cancelInLoop /\ wres = Throw("CanceledError")
    /\ Len(w_sleeps) >= 1 /\ flow = "Canceled"

\* C3 as claimed: a call that was cancelled in its loop ends with the
\* canceled error after Cancel(true) and with an absent result after
\* Cancel(false), whatever the poll returns.
C3_Original ==
    [][(PollStep /\ w_cancelInLoop /\ w_class'.kind = "return")
        => /\ wpc' = "idle"
           /\ throwExceptionOnCancel = "true" => wres' = Throw("CanceledError")
           /\ throwExceptionOnCancel = "false" => wres' = Return(Undefined)]_vars

(* C4: within one call the i-th sleep lasts the interval the call started  *)
(* with times 2^k, k being the number of BACKOFF among the first i poll    *)
(* results; so a sleep after PENDING lasts the interval as it is, the      *)
(* sleeps never get shorter, and from 5000 ms the sleeps after one and two *)
(* BACKOFF last 10000 and 20000 ms.                                        *)
C4_BackOffDoubling ==
    /\ Len(w_sleeps) <= Len(w_outcomes)
    /\ \A i \in 1..Len(w_sleeps) :
         /\ w_sleeps[i] = Times(w_start, 2 ^ BackOffs(i))
         /\ i > 1 /\ w_start # NaN => w_sleeps[i] >= w_sleeps[i - 1]
         /\ w_outcomes[i] = PENDING => w_sleeps[i] = (IF i = 1 THEN w_start ELSE w_sleeps[i - 1])
    /\ (w_start = 5000 /\ Len(w_sleeps) >= 1 /\ w_outcomes[1] = BACKOFF)
         => w_sleeps[1] = 10000
    /\ (w_start = 5000 /\ Len(w_sleeps) >= 2 /\ w_outcomes[1] = BACKOFF /\ w_outcomes[2] = BACKOFF)
         => w_sleeps[2] = 20000
    /\ wpc = "sleep" => sleepInterval = w_sleeps[Len(w_sleeps)]

\* A call that started at 5000 ms slept 10000 and 20000 ms after two BACKOFF.
C4_Witness ==
    /\ w_start = 5000 /\ w_outcomes = <<BACKOFF, BACKOFF>>
    /\ w_sleeps = <<10000, 20000>> /\ wpc = "sleep"

(* C5: one poll yields exactly five outcomes: HTTP 400 with error           *)
(* authorization_pending, slow_down, bad_verification_code or code_expired *)
(* yields Pending, BackOff, BadCode or Expired, an HTTP success with an    *)
(* access_token yields AccessToken(token), and no other answer yields any  *)
(* of them.  The outcome is the one the wait loop reads from the value the *)
(* poll returned.                                                          *)
OutcomeOf(r) ==
    IF r.kind # "return" THEN "Failure"
    ELSE CASE r.value = PENDING -> "Pending"
           [] r.value = BACKOFF -> "BackOff"
           [] r.value = BADCODE -> "BadCode"
           [] r.value = EXPIRED -> "Expired"
           [] OTHER -> "AccessToken"

C5_FiveOutcomes ==
    w_class.kind # "none" =>
        LET err(e) == w_answer.status = 400 /\ w_answer.body = "json" /\ w_answer.error = e
            token == w_answer.status = 200 /\ w_answer.body = "json"
                        /\ w_answer.access_token \notin {Undefined, ""}
        IN /\ OutcomeOf(w_class) = "Pending" <=> err("authorization_pending")
           /\ OutcomeOf(w_class) = "BackOff" <=> err("slow_down")
           /\ OutcomeOf(w_class) = "BadCode" <=> err("bad_verification_code")
           /\ OutcomeOf(w_class) = "Expired" <=> err("code_expired")
           /\ OutcomeOf(w_class) = "AccessToken" <=> token
           /\ token => w_class.value = w_answer.access_token

(* C6: when a poll returns EXPIRED the call ends with the code-expired     *)
(* error, when it returns BADCODE with the invalid-code error; in both     *)
(* cases every request the call sent is a poll, every poll it sent has     *)
(* been answered and no request is in flight.                              *)
C6_ExpiredBadCodeFatal ==
    (w_class.kind = "return" /\ w_class.value \in {EXPIRED, BADCODE})
    => /\ wpc = "idle"
       /\ wres = Throw(IF w_class.value = EXPIRED THEN "CodeExpiredError"
                       ELSE "InvalidCodeError")
       /\ \A i \in 1..Len(w_sent) : w_sent[i] = "poll"
       /\ Len(w_sent) = Len(w_outcomes)
       /\ w_outcomes[Len(w_outcomes)] = w_class.value
       /\ wreq = Undefined

\* A call ended with the code-expired error after a sleep, although Cancel
\* had been called.
C6_Witness ==
    /\ w_class = Return(EXPIRED) /\ wres = Throw("CodeExpiredError")
    /\ Len(w_sleeps) >= 1 /\ cancelFlag

(* C7: a call whose polls returned PENDING, PENDING and then an access     *)
(* token, with Cancel never called, and whose identity, location and       *)
(* token-creation requests were answered with an id, a location and a      *)
(* non-empty token, sent exactly three polls, slept exactly twice, each    *)
(* time the interval it started with, and returns that token.              *)
C7_PendingPendingToken ==
    [][\A a \in TokenAnswers :
         (/\ TokenAnswered(a)
          /\ a.status = 200 /\ a.body = "json" /\ a.token \notin {Undefined, ""}
          /\ ~cancelFlag
          /\ Len(w_outcomes) = 3
          /\ w_outcomes[1] = PENDING /\ w_outcomes[2] = PENDING
          /\ w_outcomes[3] \notin DeviceCodeStatus)
         => /\ w_sent = <<"poll", "poll", "poll", "identity", "location", "token">>
            /\ w_sleeps = <<w_start, w_start>>
            /\ wpc' = "idle"
            /\ wres' = Return(a.token)
            /\ w_sent' = w_sent]_vars

\* Such a call returned the minted token.
C7_Witness ==
    /\ wpc = "idle" /\ ~cancelFlag
    /\ w_outcomes = <<PENDING, PENDING, "tok">>
    /\ w_sleeps = <<5000, 5000>>
    /\ wres = Return("pat") /\ flow = "Completed"

(* C8 as amended: a WaitForPersonalAccessToken call ends with the          *)
(* precondition error, without polling, exactly when the instance holds no *)
(* device code, which is so in state Created; with a device code stored    *)
(* the call sends a poll, also in the states Completed, Canceled and       *)
(* Failed that an earlier call left.                                       *)
C8_AcceptedWithDeviceCode ==
    [][WaitForPersonalAccessToken
        => /\ (deviceCode \in {Undefined, ""})
                <=> (wpc' = "idle" /\ wres' = Throw("PreconditionError") /\ w_sent' = <<>>)
           /\ (deviceCode \notin {Undefined, ""})
                <=> (wpc' = "poll" /\ w_sent' = <<"poll">> /\ wreq' = deviceCode)
           /\ flow = "Created" => deviceCode = Undefined
           /\ flow' = flow]_vars

\* A call made in state Completed is polling.
C8_Witness ==
    /\ flow = "Completed" /\ wpc = "poll" /\ w_sent = <<"poll">>

\* C8 as claimed: a call made in any state but AwaitingVerification ends with
\* the precondition error without polling.
C8_Original ==
    [][(WaitForPersonalAccessToken /\ flow # "AwaitingVerification")
        => (wpc' = "idle" /\ wres' = Throw("PreconditionError") /\ w_sent' = <<>>)]_vars

(* C9: a call returns an absent or empty result only on a cancellation     *)
(* that does not throw: Cancel was called and the call sent no identity,   *)
(* location or token-creation request.                                     *)
C9_AbsentOnlyOnCancel ==
    (wpc = "idle" /\ wres.kind = "return" /\ wres.value \in {Undefined, ""})
    => /\ cancelFlag
       /\ \A i \in 1..Len(w_sent) : w_sent[i] = "poll"

----------------------------------------------------------------------------
(* C10: tenant resolution.  The ids of a header are the pieces between its *)
(* commas.  A header with one id resolves to it; a header with several ids *)
(* resolves to the first of them that is not the all-zero sentinel; the    *)
(* result has the blanks around it removed.  An id is compared with the    *)
(* sentinel as it stands in the header.                                    *)

CommasOf(h) == {i \in 1..Len(h) : h[i] = ","}
NumIds(h) == Cardinality(CommasOf(h)) + 1
\* The position of the k-th comma of h; 0 for k = 0 and Len(h) + 1 past the last.
CommaNo(h, k) ==
    IF k = 0 THEN 0
    ELSE IF k > Cardinality(CommasOf(h)) THEN Len(h) + 1
    ELSE CHOOSE i \in CommasOf(h) : Cardinality({j \in CommasOf(h) : j < i}) = k - 1
IdNo(h, k) == SubSeq(h, CommaNo(h, k - 1) + 1, CommaNo(h, k) - 1)
\* t without the blanks before its first and after its last non-blank atom.
Stripped(t) ==
    LET solid == {i \in 1..Len(t) : t[i] # " "}
    IN IF solid = {} THEN <<>>
       ELSE SubSeq(t, CHOOSE i \in solid : \A j \in solid : i <= j,
                      CHOOSE i \in solid : \A j \in solid : i >= j)
\* The header is one the claim speaks of: not empty, and with one id or with
\* an id that is not the sentinel.
Resolvable(h) ==
    /\ h # UndefinedText /\ h # <<>>
    /\ NumIds(h) = 1 \/ \E k \in 1..NumIds(h) : IdNo(h, k) # Sentinel
ExpectedTenant(h) ==
    IF NumIds(h) = 1 THEN Stripped(h)
    ELSE LET first == CHOOSE k \in 1..NumIds(h) :
                          /\ IdNo(h, k) # Sentinel
                          /\ \A j \in 1..(k - 1) : IdNo(h, j) = Sentinel
         IN Stripped(IdNo(h, first))

C10_TenantResolution ==
    /\ Resolvable(tenantFrom)
         => /\ gres.kind # "throw"
            /\ tenantId = ExpectedTenant(tenantFrom)
    /\ tenantFrom = <<"Z", ",", "A">> => tenantId = <<"A">>
    /\ tenantFrom = <<"Z">> => tenantId = <<"Z">>

\* A header that lists the sentinel and two tenants resolved to the first
\* tenant.
C10_Witness ==
    /\ tenantFrom = <<"Z", ",", "A", ",", "B">> /\ tenantId = <<"A">>
    /\ gpc = "devicecode"

----------------------------------------------------------------------------
(* Construction.                                                           *)

\* The call had a non-empty endpoint, client id and redirect URI.
ValidRequired(args) ==
    /\ args.resourceUri # UndefinedText /\ args.resourceUri # <<>>
    /\ args.authOptions.clientId \notin {Undefined, ""}
    /\ args.authOptions.redirectUri \notin {Undefined, ""}

(* C11: a constructor call with a valid endpoint and valid authentication  *)
(* options and without token options succeeds, and the instance has the    *)
(* device-code grant type, an empty token scope and the default token      *)
(* description.                                                            *)
C11_TokenOptionsOmitted ==
    (cres.kind # "none" /\ ValidRequired(c_args) /\ ~c_args.tokenOptions.given)
    => /\ cres.kind = "return"
       /\ grantType = "device_code"
       /\ tokenScope = ""
       /\ tokenDescription = "vsts-device-flow-auth Personal Access Token"

(* C12: a constructor call with an empty (or missing) endpoint, client id  *)
(* or redirect URI throws the error that names the first of them that is   *)
(* missing; no request is ever issued and no operation ever runs.          *)
C12_ConfigurationError ==
    (cres.kind # "none" /\ ~ValidRequired(c_args))
    => /\ cres = Throw(IF c_args.resourceUri \in {UndefinedText, <<>>}
                       THEN "resourceUri must have a value"
                       ELSE IF c_args.authOptions.clientId \in {Undefined, ""}
                       THEN "authOptions.clientId must have a value"
                       ELSE "authOptions.redirectUri must have a value")
       /\ gpc = "idle" /\ gurl = NoUrl /\ gres.kind = "none"
       /\ wpc = "idle" /\ wurl = NoUrl /\ wres.kind = "none" /\ w_sent = <<>>
       /\ flow = "Created"

\* A call without token options and with an empty redirect URI threw the
\* configuration error.
C12_Witness ==
    /\ cres = Throw("authOptions.redirectUri must have a value")
    /\ c_args.authOptions.redirectUri = "" /\ c_args.authOptions.clientId = "cid"
    /\ ~c_args.tokenOptions.given

(* C13: for a non-empty endpoint given without a trailing separator, the   *)
(* stored endpoint is the given one followed by one separator and ends     *)
(* with exactly one separator; normalizing the stored endpoint again       *)
(* leaves it unchanged; and the tenant probe, the identity lookup and the  *)
(* location lookup go to a URL that starts with the stored endpoint.       *)
EndsWithOneSeparator(u) ==
    /\ Len(u) >= 1 /\ u[Len(u)] = "/"
    /\ Len(u) >= 2 => u[Len(u) - 1] # "/"

C13_TrailingSeparator ==
    LET u == c_args.resourceUri
    IN (cres.kind # "none" /\ u # UndefinedText /\ u # <<>>)
       => /\ u[Len(u)] # "/"
               => /\ resourceUri = u \o <<"/">>
                  /\ EndsWithOneSeparator(resourceUri)
          /\ u[Len(u)] = "/" => resourceUri = u
          /\ AddTrailingSeparator(resourceUri, "/") = resourceUri
          /\ gpc = "probe" => gurl.base = resourceUri /\ gurl.path = ""
          /\ wpc \in {"identity", "location"}
               => wurl.base = resourceUri /\ wurl.path # Undefined

\* The location lookup of an instance given "h/h" is in flight.
C13_Witness ==
    /\ c_args.resourceUri = <<"h", "/", "h">>
    /\ resourceUri = <<"h", "/", "h", "/">>
    /\ wpc = "location" /\ wurl.base = <<"h", "/", "h", "/">>

----------------------------------------------------------------------------
(* C14: cancellation is cooperative and bounded.  A Cancel step leaves the *)
(* request in flight, the sleep and everything else of a running call as   *)
(* they are; a sleep that Cancel fell into ends by sending a poll; the     *)
(* answer to a poll, once Cancel was called in the loop, ends the call     *)
(* without another sleep or request; so the call sends at most one poll    *)
(* after the Cancel.                                                       *)
C14_CancelCooperative ==
    [][/\ (\E t \in {"true", "false", Undefined} : Cancel(t))
            => UNCHANGED <<wVars, gVars, w_sent, w_outcomes, w_sleeps, flow>>
       /\ (SleepDone /\ w_cancelInLoop)
            => wpc' = "poll" /\ w_sent' = Append(w_sent, "poll")
       /\ (PollStep /\ w_cancelInLoop)
            => wpc' = "idle" /\ w_sent' = w_sent /\ w_sleeps' = w_sleeps
       /\ w_pollsSinceCancel' <= 1]_vars

\* A call that Cancel found in a sleep has sent its one further poll.
C14_Witness ==
    /\ wpc = "poll" /\ w_cancelInLoop /\ w_pollsSinceCancel = 1
    /\ Len(w_sent) = 2

----------------------------------------------------------------------------
(* C15: requests are issued strictly forward.  The device-code request is  *)
(* sent only by the step in which the tenant probe of the same call        *)
(* yielded a tenant id, and goes to that tenant's endpoint; the first poll *)
(* of a call is sent only with a device code stored, and a later poll only *)
(* after a sleep of the same call; the identity lookup is sent only by the *)
(* step in which a poll of the call returned an access token, and carries  *)
(* it; the location lookup only by the step in which the identity lookup   *)
(* returned an id; the token-creation request only by the step in which    *)
(* the location lookup returned a location.  The requests of a call are    *)
(* polls followed by at most one identity lookup, location lookup and      *)
(* token creation, in this order.                                          *)
Forward(sent) ==
    \E n \in 0..Len(sent) :
        /\ \A i \in 1..n : sent[i] = "poll"
        /\ SubSeq(sent, n + 1, Len(sent))
             \in {<<>>, <<"identity">>, <<"identity", "location">>,
                  <<"identity", "location", "token">>}
        /\ Len(sent) > n => n >= 1

C15_StrictlyForward ==
    [][/\ (gpc' = "devicecode" /\ gpc # "devicecode")
            => /\ gpc = "probe"
               /\ tenantFrom' \notin {UndefinedText, <<>>}
               /\ tenantId' # UndefinedText
               /\ gurl' = LoginUrl(tenantId', "devicecode")
       /\ (wpc' = "poll" /\ wpc # "poll")
            => \/ wpc = "idle" /\ deviceCode \notin {Undefined, ""} /\ wreq' = deviceCode
               \/ wpc = "sleep" /\ Len(w_sent) >= 1
       /\ (wpc' = "identity" /\ wpc # "identity")
            => /\ wpc = "poll"
               /\ IsAccessToken(w_class')
               /\ wreq' = w_class'.value
       /\ (wpc' = "location" /\ wpc # "location")
            => /\ wpc = "identity"
               /\ userId' \notin {Undefined, ""}
               /\ wreq' = accessToken /\ IsAccessToken(Return(accessToken))
       /\ (wpc' = "token" /\ wpc # "token")
            => /\ wpc = "location"
               /\ wurl'.base \notin {UndefinedText, <<Undefined>>, <<"">>}
               /\ wreq' = accessToken
       /\ Forward(w_sent')]_vars

\* A call has sent two polls, the identity lookup, the location lookup and
\* the token-creation request.
C15_Witness ==
    /\ wpc = "token"
    /\ w_sent = <<"poll", "poll", "identity", "location", "token">>
    /\ wurl = SessionTokensUrl("loc")

----------------------------------------------------------------------------
(* C16: under fair scheduling a WaitForPersonalAccessToken call            *)
(* terminates once the provider answers a poll with anything other than    *)
(* Pending (HTTP 400, authorization_pending) or BackOff (HTTP 400,         *)
(* slow_down), or once Cancel is called: such an answer, or any answer     *)
(* after Cancel, is followed by no further sleep, and the call ends.  The  *)
(* expiry window never ends the loop: a Pending or BackOff answer without  *)
(* Cancel is always followed by another sleep.                             *)
ProviderSaysWait(a) ==
    /\ a.status = 400 /\ a.body = "json"
    /\ a.error \in {"authorization_pending", "slow_down"}

C16_Termination ==
    /\ (wpc # "idle") ~> (wpc = "idle")
    /\ [][(\E a \in PollAnswers : PollAnswered(a))
            => /\ (~ProviderSaysWait(w_answer') \/ cancelFlag) => wpc' # "sleep"
               /\ (ProviderSaysWait(w_answer') /\ ~cancelFlag) => wpc' = "sleep"]_vars

----------------------------------------------------------------------------
(* C17: only Pending and BackOff cause another poll.  An answer to a poll  *)
(* is followed by a sleep (and so by another poll) only if it is HTTP 400  *)
(* with error authorization_pending or slow_down; an HTTP success without  *)
(* access_token, an HTTP 400 with another error value or a body that does  *)
(* not parse, and any other status end the call with an error, with no     *)
(* further request.                                                        *)
C17_OnlyPendingBackOffRetry ==
    [][(\E a \in PollAnswers : PollAnswered(a))
        => LET a == w_answer'
           IN /\ wpc' = "sleep" => ProviderSaysWait(a)
              /\ (\/ a.status = 200 /\ (a.body # "json" \/ a.access_token \in {Undefined, ""})
                  \/ a.status = 400 /\ ~ProviderSaysWait(a)
                       /\ ~(a.body = "json" /\ a.error \in {"bad_verification_code", "code_expired"})
                  \/ a.status \notin {200, 400})
                 => /\ wpc' = "idle"
                    /\ wres'.kind = "throw"
                    /\ w_sent' = w_sent]_vars

----------------------------------------------------------------------------
(* C18: the cancellation flag only moves from false to true: no step of    *)
(* any operation, a new GetDeviceFlowDetails included, clears it.  With    *)
(* the flag set, the answer to a poll ends the call with an error or an    *)
(* absent result and without an identity lookup; every call begins with a  *)
(* poll, so a call made after Cancel returns no minted credential.         *)
C18_CancelFlagSticky ==
    [][/\ cancelFlag => cancelFlag'
       /\ ((\E a \in PollAnswers : PollAnswered(a)) /\ cancelFlag)
            => /\ wpc' = "idle"
               /\ w_sent' = w_sent
               /\ wres'.kind = "throw" \/ wres' = Return(Undefined)
       /\ (wpc' = "identity" /\ wpc # "identity") => ~cancelFlag]_vars

\* A call made with the flag set, whose only poll returned an access
\* token, returned an absent result.
C18_Witness ==
    /\ cancelFlag /\ ~w_cancelInLoop
    /\ wpc = "idle" /\ wres = Return(Undefined)
    /\ w_sent = <<"poll">> /\ w_outcomes = <<"tok">>
    /\ flow = "Canceled"

----------------------------------------------------------------------------
----------------------------------------------------------------------------
(* C20: a later successful GetDeviceFlowDetails resolves the tenant again  *)
(* (it sends the tenant probe like the first), and the answer to its       *)
(* device-code request overwrites the stored device code, interval and     *)
(* expiry with the values of that answer; every poll sent afterwards, the  *)
(* first of a call and one after a sleep alike, carries the device code    *)
(* stored at that time, so never the one that was overwritten.             *)
C20_NewestDeviceCode ==
    [][/\ (GetDeviceFlowDetails /\ ~Falsy(deviceCode))
            => gpc' = "probe" /\ gurl' = TenantUrl(resourceUri)
       /\ \A a \in DeviceCodeAnswers :
            (DeviceCodeAnswered(a) /\ a.status = 200 /\ a.body = "json")
               => /\ gres'.kind = "return"
                  /\ deviceCode' = a.device_code
                  /\ interval' = (CASE a.interval = "5" -> 5000
                                    [] a.interval = "1" -> 1000
                                    [] OTHER -> NaN)
                  /\ expiresIn' = (IF a.expires_in = "900" THEN 900000 ELSE NaN)
       /\ deviceCode' # deviceCode => gpc = "devicecode" /\ gpc' = "idle"
       /\ (wpc' = "poll" /\ wpc # "poll")
            => /\ wreq' = deviceCode
               /\ wpc = "idle" => ~Falsy(wreq')
               /\ deviceCode = "dc2" => wreq' # "dc1"]_vars

\* After the first device code, dc1, a later GetDeviceFlowDetails stored
\* dc2 with its interval and expiry, and the first poll of a call started
\* since, now in flight, carries dc2.
C20_Witness ==
    /\ gpc = "idle" /\ gres.kind = "return"
    /\ deviceCode = "dc2" /\ interval = 1000 /\ expiresIn = 900000
    /\ wpc = "poll" /\ w_sent = <<"poll">> /\ w_start = 1000 /\ wreq = "dc2"

----------------------------------------------------------------------------
(* C21: when the answer to the tenant probe carries no tenant header,      *)
(* whether the request succeeded or failed and whether or not the answer   *)
(* has a response object, GetDeviceFlowDetails fails with the              *)
(* tenant-resolution error, sends no device-code request and no second     *)
(* probe, and an instance without a device code stays without one.         *)
C21_TenantHeaderAbsent ==
    [][\A a \in ProbeAnswers(ProbeHeaders) :
          (TenantProbeAnswered(a) /\ a.header = UndefinedText)
             => /\ gres' = ThrowG("TenantIdError")
                /\ gpc' = "idle" /\ gurl' = NoUrl
                /\ Falsy(deviceCode) => Falsy(deviceCode')]_vars

----------------------------------------------------------------------------
(* C22: when the device-code request is answered with HTTP success and a   *)
(* body that does not parse, or that lacks one of user_code, device_code,  *)
(* verification_url, expires_in, interval and message, the call fails      *)
(* with an error, returns no details, and the orchestrator's state stays   *)
(* what it was.                                                            *)
RequiredFields == {"user_code", "device_code", "verification_url", "expires_in",
                   "interval", "message"}

C22_DeviceCodeResponseChecked ==
    [][\A a \in DeviceCodeAnswers :
          (/\ DeviceCodeAnswered(a)
           /\ a.status = 200
           /\ (a.body # "json" \/ \E f \in RequiredFields : a[f] = Undefined))
             => gres'.kind = "throw" /\ flow' = flow]_vars

----------------------------------------------------------------------------
(* C23: the frame of WaitForPersonalAccessToken and Cancel.  No step of a  *)
(* WaitForPersonalAccessToken call (its start, the answer to a poll, the   *)
(* end of a sleep, the answers to the identity, location and               *)
(* token-creation requests), whatever the call ends in, changes the stored *)
(* device code, tenant id, interval, expiry window or the account          *)
(* endpoint; Cancel sets the cancellation flag and stores its argument as  *)
(* the throw-on-cancel flag and changes nothing else of the instance and   *)
(* of the calls that are running.                                          *)
WaitStep ==
    \/ WaitForPersonalAccessToken
    \/ PollStep
    \/ SleepDone
    \/ \E a \in IdentityAnswers : IdentityAnswered(a)
    \/ \E a \in LocationAnswers : LocationAnswered(a)
    \/ \E a \in TokenAnswers : TokenAnswered(a)

C23_Frame ==
    [][/\ WaitStep => UNCHANGED <<deviceCode, tenantId, interval, expiresIn, resourceUri>>
       /\ \A t \in {"true", "false", Undefined} :
            Cancel(t) => /\ cancelFlag' = TRUE /\ throwExceptionOnCancel' = t
                         /\ UNCHANGED <<deviceCode, tenantId, interval, expiresIn,
                                        configVars, gVars, wVars>>]_vars

\* A call has returned the personal access token and Cancel was called
\* with true: the device code, the tenant id, the expiry window and the
\* endpoint are those the instance had before.
C23_Witness ==
    /\ wpc = "idle" /\ wres = Return("pat") /\ Len(w_sent) = 4
    /\ cancelFlag /\ throwExceptionOnCancel = "true"
    /\ deviceCode = "dc1" /\ tenantId = <<"A">> /\ expiresIn = 1000
    /\ resourceUri = <<"h", "/">>

----------------------------------------------------------------------------
(* C24: a GetDeviceFlowDetails call that fails leaves tenant id, device    *)
(* code, interval and expiry as they were before the call.  So as long as  *)
(* no call has succeeded (the orchestrator is still in state Created),     *)
(* after a failed call the four are as the constructor left them.          *)
C24_FailedCallNoEffect ==
    (flow = "Created" /\ gpc = "idle" /\ gres.kind = "throw")
    => /\ tenantId = UndefinedText
       /\ deviceCode = Undefined
       /\ interval = DefaultInterval
       /\ expiresIn = DefaultExpiresIn

----------------------------------------------------------------------------
(* C25: a poll answered with HTTP success and a non-empty access_token     *)
(* yields that token whatever its text.  Unless Cancel was called, the     *)
(* answer ends the loop and the identity lookup is sent with the token,    *)
(* also when the token's text is one of the status strings.                *)
C25_TokenWhateverItsText ==
    [][PollStep
        => LET a == w_answer'
           IN (/\ a.status = 200 /\ a.body = "json" /\ ~Falsy(a.access_token)
               /\ ~cancelFlag)
                 => /\ wpc' = "identity"
                    /\ accessToken' = a.access_token /\ wreq' = a.access_token
                    /\ w_sent' = Append(w_sent, "identity")
                    /\ w_sleeps' = w_sleeps]_vars

----------------------------------------------------------------------------
(* C26: all polls of one WaitForPersonalAccessToken call carry the same    *)
(* device code, also when GetDeviceFlowDetails runs while the call is      *)
(* suspended.  The provider's answers pair the code dc1 with the interval  *)
(* 5 and dc2 with the interval 1, and a call reads interval and device     *)
(* code in one step, so the interval a call found tells the code of its    *)
(* first poll: every poll of a call that found 5000 carries dc1, every     *)
(* poll of a call that found 1000 carries dc2.                             *)
C26_OneCodePerCall ==
    wpc = "poll" => /\ w_start = 5000 => wreq = "dc1"
                    /\ w_start = 1000 => wreq = "dc2"

----------------------------------------------------------------------------
(* C27: every request in flight carries a User-Agent header; the identity  *)
(* lookup, the location lookup and the token-creation request also carry   *)
(* the Basic authorization header and the header that suppresses the       *)
(* federated redirect, and the tenant probe, the device-code request and   *)
(* the polls carry neither of the two.                                     *)
Carries(headers, name) == \E h \in headers : h[1] = name

C27_Headers ==
    /\ gpc \in {"probe", "devicecode"}
         => /\ Carries(gheaders, "User-Agent")
            /\ ~Carries(gheaders, "Authorization")
            /\ ~Carries(gheaders, "X-TFS-FedAuthRedirect")
    /\ wpc = "poll"
         => /\ Carries(wheaders, "User-Agent")
            /\ ~Carries(wheaders, "Authorization")
            /\ ~Carries(wheaders, "X-TFS-FedAuthRedirect")
    /\ wpc \in {"identity", "location", "token"}
         => /\ Carries(wheaders, "User-Agent")
            /\ <<"Authorization", <<"Basic", "PAT:", accessToken>>>> \in wheaders
            /\ <<"X-TFS-FedAuthRedirect", <<"Suppress">>>> \in wheaders

====
